---------------------------- MODULE Spec2Model ----------------------------
(***************************************************************************)
(* A model of pytest-helm: the manifest parser, the duplicate policy, the  *)
(* selector lookup of ManifestIndex, the load pipeline, the fixture        *)
(* factory and the scaffolding CLI.                                        *)
(*                                                                         *)
(* Python strings are sequences of one-character strings, so that          *)
(* str.casefold, str.strip("/"), str.split("/") and "/".join are computed  *)
(* character by character as the code computes them.                       *)
(***************************************************************************)
EXTENDS Integers, Sequences, FiniteSets, TLC

VARIABLES
    stream,     \* the YAML documents of manifest_text, in stream order
    index,      \* outcome of building the index: an error or the records
    lastGet,    \* the last ManifestIndex.get call: selector and outcome
    load,       \* the load_manifest call in progress and its counters
    fixture,    \* manifest_fixture: caller's list, definition, invocations
    fs,         \* the file system under the current directory
    cli,        \* the last run of main: argv, outcome, file system before
    callers     \* the last call of each caller that shares the index

vars == <<stream, index, lastGet, load, fixture, fs, cli, callers>>

---------------------------------------------------------------------------
(* Bounds *)

MaxDocs == 2

MaxBatch == 3

MaxCmd == 2

MaxCalls == 2

---------------------------------------------------------------------------
(* Strings *)

FoldMap ==
    [c \in {"V", "G", "K", "J", "N", "M", "X"} |->
        CASE c = "V" -> "v" [] c = "G" -> "g" [] c = "K" -> "k"
          [] c = "J" -> "j" [] c = "N" -> "n" [] c = "M" -> "m"
          [] c = "X" -> "x"]

UpperMap ==
    [c \in {"v", "g", "k", "j", "n", "m", "x"} |->
        CASE c = "v" -> "V" [] c = "g" -> "G" [] c = "k" -> "K"
          [] c = "j" -> "J" [] c = "n" -> "N" [] c = "m" -> "M"
          [] c = "x" -> "X"]

\* str.casefold
Casefold(s) ==
    [i \in 1..Len(s) |-> IF s[i] \in DOMAIN FoldMap THEN FoldMap[s[i]] ELSE s[i]]

RECURSIVE StripLeft(_, _)
StripLeft(s, c) ==
    IF s # <<>> /\ Head(s) = c THEN StripLeft(Tail(s), c) ELSE s

RECURSIVE StripRight(_, _)
StripRight(s, c) ==
    IF s # <<>> /\ s[Len(s)] = c
    THEN StripRight(SubSeq(s, 1, Len(s) - 1), c)
    ELSE s

\* str.strip(c)
Strip(s, c) == StripRight(StripLeft(s, c), c)

\* str.split(c): the pieces between the separators, empty pieces included
RECURSIVE SplitFrom(_, _, _)
SplitFrom(s, c, cur) ==
    IF s = <<>> THEN <<cur>>
    ELSE IF Head(s) = c THEN <<cur>> \o SplitFrom(Tail(s), c, <<>>)
    ELSE SplitFrom(Tail(s), c, Append(cur, Head(s)))

Split(s, c) == SplitFrom(s, c, <<>>)

\* c.join(parts)
RECURSIVE Join(_, _)
Join(parts, c) ==
    IF parts = <<>> THEN <<>>
    ELSE IF Len(parts) = 1 THEN parts[1]
    ELSE parts[1] \o <<c>> \o Join(Tail(parts), c)

NonEmpty(part) == part # <<>>

---------------------------------------------------------------------------
(* YAML documents.  A field value is a string, a missing key (None) or a   *)
(* value that is not a string; a document is null, a non-mapping value or  *)
(* a mapping; metadata is a mapping or anything else.                      *)

Str(s) == [t |-> "str", s |-> s]
None == [t |-> "none", s |-> <<>>]
NotStr == [t |-> "int", s |-> <<>>]

IsNonEmptyStr(v) == v.t = "str" /\ v.s # <<>>

Doc(api, kind, name) ==
    [tag |-> "map", apiVersion |-> api, kind |-> kind,
     metadata |-> [t |-> "map", name |-> name]]

\* a mapping whose metadata is not itself a mapping
DocMeta(api, kind) ==
    [tag |-> "map", apiVersion |-> api, kind |-> kind,
     metadata |-> [t |-> "other", name |-> None]]

NullDoc ==
    [tag |-> "null", apiVersion |-> None, kind |-> None,
     metadata |-> [t |-> "other", name |-> None]]

ScalarDoc ==
    [tag |-> "scalar", apiVersion |-> None, kind |-> None,
     metadata |-> [t |-> "other", name |-> None]]

---------------------------------------------------------------------------
(* _ManifestRecord and the duplicate policy *)

\* manifest is the identity of the Box made for document number n
ManifestRecord(api_version, kind, name, n) ==
    [api_version |-> api_version, kind |-> kind, name |-> name, manifest |-> n]

\* mutant: the key keeps the original casing
duplicate_key_exact(record) ==
    <<record.kind, record.name, record.api_version>>

duplicate_key(record) ==
    <<Casefold(record.kind), Casefold(record.name), Casefold(record.api_version)>>

NoRecord == ManifestRecord(<<>>, <<>>, <<>>, 0)

Built(records) ==
    [status |-> "index", records |-> records, ordinal |-> 0, field |-> "",
     dup |-> NoRecord]

ParseError(ordinal, field) ==
    [status |-> "ManifestParseError", records |-> <<>>, ordinal |-> ordinal,
     field |-> field, dup |-> NoRecord]

DuplicateError(record) ==
    [status |-> "DuplicateManifestError", records |-> <<>>, ordinal |-> 0,
     field |-> "", dup |-> record]

RECURSIVE DedupLoop(_, _, _, _, _)
DedupLoop(records, on_duplicate, i, deduped, seen) ==
    IF i > Len(records) THEN Built(deduped)
    ELSE LET record == records[i]
             key == duplicate_key(record)
         IN  IF key \in seen
             THEN IF on_duplicate = "error"
                  THEN DuplicateError(record)
                  ELSE DedupLoop(records, on_duplicate, i + 1, deduped, seen)
             ELSE DedupLoop(records, on_duplicate, i + 1,
                            Append(deduped, record), seen \cup {key})

\* mutant: 'ignore' keeps every record
apply_duplicate_policy_keep_all(records, on_duplicate) ==
    IF on_duplicate = "ignore" THEN Built(records)
    ELSE DedupLoop(records, on_duplicate, 1, <<>>, {})

\* _apply_duplicate_policy: the deduplicated records, or DuplicateManifestError
apply_duplicate_policy(records, on_duplicate) ==
    DedupLoop(records, on_duplicate, 1, <<>>, {})

---------------------------------------------------------------------------
(* parse_manifest_documents *)

\* mutant: the fields are checked in the order they are read from the
\* document, kind first
RECURSIVE ParseLoop_kind_first(_, _, _)
ParseLoop_kind_first(text, document_number, records) ==
    IF document_number > Len(text) THEN Built(records)
    ELSE LET document == text[document_number]
             kind == document.kind
             api_version == document.apiVersion
             metadata == document.metadata
             name == IF metadata.t = "map" THEN metadata.name ELSE None
         IN  IF document.tag = "null"
             THEN ParseLoop_kind_first(text, document_number + 1, records)
             ELSE IF document.tag # "map"
             THEN ParseError(document_number, "mapping")
             ELSE IF ~IsNonEmptyStr(kind)
             THEN ParseError(document_number, "kind")
             ELSE IF ~IsNonEmptyStr(api_version)
             THEN ParseError(document_number, "apiVersion")
             ELSE IF ~IsNonEmptyStr(name)
             THEN ParseError(document_number, "metadata.name")
             ELSE ParseLoop_kind_first(text, document_number + 1,
                      Append(records,
                             ManifestRecord(api_version.s, kind.s, name.s,
                                            document_number)))

\* the loop over enumerate(yaml.load_all(manifest_text), start=1)
RECURSIVE ParseLoop(_, _, _)
ParseLoop(text, document_number, records) ==
    IF document_number > Len(text) THEN Built(records)
    ELSE LET document == text[document_number]
             kind == document.kind
             api_version == document.apiVersion
             metadata == document.metadata
             name == IF metadata.t = "map" THEN metadata.name ELSE None
         IN  IF document.tag = "null"
             THEN ParseLoop(text, document_number + 1, records)
             ELSE IF document.tag # "map"
             THEN ParseError(document_number, "mapping")
             ELSE IF ~IsNonEmptyStr(api_version)
             THEN ParseError(document_number, "apiVersion")
             ELSE IF ~IsNonEmptyStr(kind)
             THEN ParseError(document_number, "kind")
             ELSE IF ~IsNonEmptyStr(name)
             THEN ParseError(document_number, "metadata.name")
             ELSE ParseLoop(text, document_number + 1,
                      Append(records,
                             ManifestRecord(api_version.s, kind.s, name.s,
                                            document_number)))

\* mutant: the duplicate policy is applied to the documents read so far
\* before a malformed document is reported
parse_manifest_documents_eager(manifest_text, on_duplicate) ==
    LET parsed == ParseLoop(manifest_text, 1, <<>>)
    IN  IF parsed.status # "index"
        THEN LET before == ParseLoop(SubSeq(manifest_text, 1, parsed.ordinal - 1),
                                     1, <<>>)
                 deduped == apply_duplicate_policy(before.records, on_duplicate)
             IN  IF deduped.status = "DuplicateManifestError"
                 THEN deduped ELSE parsed
        ELSE apply_duplicate_policy(parsed.records, on_duplicate)

parse_manifest_documents(manifest_text, on_duplicate) ==
    LET parsed == ParseLoop(manifest_text, 1, <<>>)
    IN  IF parsed.status # "index" THEN parsed
        ELSE apply_duplicate_policy(parsed.records, on_duplicate)

---------------------------------------------------------------------------
(* ManifestIndex.get *)

Returned(n) == [exc |-> "none", stage |-> "done", doc |-> n]
Raised(exc, stage) == [exc |-> exc, stage |-> stage, doc |-> 0]

\* mutant: the empty segments are kept
parse_selector_keep_empty(selector) ==
    LET parts == Split(Strip(selector, "/"), "/")
        n == Len(parts)
    IN  IF n < 2
        THEN [ok |-> FALSE, has_api |-> FALSE, api_version |-> <<>>,
              kind |-> <<>>, name |-> <<>>]
        ELSE LET api_version == Join(SubSeq(parts, 1, n - 2), "/")
             IN  [ok |-> TRUE, has_api |-> api_version # <<>>,
                  api_version |-> api_version,
                  kind |-> parts[n - 1], name |-> parts[n]]

\* _parse_selector: ok is FALSE for the ValueError; has_api is FALSE for None
parse_selector(selector) ==
    LET parts == SelectSeq(Split(Strip(selector, "/"), "/"), NonEmpty)
        n == Len(parts)
    IN  IF n < 2
        THEN [ok |-> FALSE, has_api |-> FALSE, api_version |-> <<>>,
              kind |-> <<>>, name |-> <<>>]
        ELSE LET api_version == Join(SubSeq(parts, 1, n - 2), "/")
             IN  [ok |-> TRUE, has_api |-> api_version # <<>>,
                  api_version |-> api_version,
                  kind |-> parts[n - 1], name |-> parts[n]]

KindMatches(record, kind_cf) == Casefold(record.kind) = kind_cf

NameMatches(record, name_cf) == Casefold(record.name) = name_cf

ApiVersionMatches(record, api_cf) == Casefold(record.api_version) = api_cf

\* mutant: the selector's kind is compared as written
records_for_kind_exact(records, kind) ==
    LET Match(record) == KindMatches(record, kind)
    IN  SelectSeq(records, Match)

\* _records_for_kind: the matches; empty stands for the KeyError
records_for_kind(records, kind) ==
    LET kind_cf == Casefold(kind)
        Match(record) == KindMatches(record, kind_cf)
    IN  SelectSeq(records, Match)

\* _records_for_name: likewise
records_for_name(records, name) ==
    LET name_cf == Casefold(name)
        Match(record) == NameMatches(record, name_cf)
    IN  SelectSeq(records, Match)

\* the set comprehension {record.api_version for record in records}
ApiVersionSet(records) == {records[i].api_version : i \in 1..Len(records)}

\* _single_or_ambiguous
single_or_ambiguous(records) ==
    IF Cardinality(ApiVersionSet(records)) > 1
    THEN Raised("AmbiguousManifestError", "apiVersion")
    ELSE Returned(records[1].manifest)

\* mutant: the first record of the kind and name, whatever its apiVersion
match_api_version_first(api_version, records) ==
    Returned(records[1].manifest)

\* _match_api_version: the first record, in stored order, with the apiVersion
match_api_version(api_version, records) ==
    LET api_cf == Casefold(api_version)
        hits == {i \in 1..Len(records) : ApiVersionMatches(records[i], api_cf)}
    IN  IF hits # {}
        THEN Returned(records[CHOOSE i \in hits : \A j \in hits : i <= j].manifest)
        ELSE Raised("KeyError", "apiVersion")

\* mutant: the name is looked up before the kind
Get_name_first(records, selector) ==
    LET sel == parse_selector(selector)
    IN  IF ~sel.ok THEN Raised("ValueError", "selector")
        ELSE LET name_records == records_for_name(records, sel.name)
             IN  IF name_records = <<>> THEN Raised("KeyError", "name")
                 ELSE LET kind_records == records_for_kind(name_records, sel.kind)
                      IN  IF kind_records = <<>> THEN Raised("KeyError", "kind")
                          ELSE IF ~sel.has_api
                          THEN single_or_ambiguous(kind_records)
                          ELSE match_api_version(sel.api_version, kind_records)

Get(records, selector) ==
    LET sel == parse_selector(selector)
    IN  IF ~sel.ok THEN Raised("ValueError", "selector")
        ELSE LET kind_records == records_for_kind(records, sel.kind)
             IN  IF kind_records = <<>> THEN Raised("KeyError", "kind")
                 ELSE LET name_records == records_for_name(kind_records, sel.name)
                      IN  IF name_records = <<>> THEN Raised("KeyError", "name")
                          ELSE IF ~sel.has_api
                          THEN single_or_ambiguous(name_records)
                          ELSE match_api_version(sel.api_version, name_records)

---------------------------------------------------------------------------
(* ManifestIndex.__repr__ and the callers that share one index *)

\* the code points of the characters of kinds and names
CodePoint ==
    [c \in {" ", "/", "G", "J", "K", "M", "N", "V", "X",
            "g", "j", "k", "m", "n", "v", "x"} |->
        CASE c = " " -> 32 [] c = "/" -> 47
          [] c = "G" -> 71 [] c = "J" -> 74 [] c = "K" -> 75 [] c = "M" -> 77
          [] c = "N" -> 78 [] c = "V" -> 86 [] c = "X" -> 88
          [] c = "g" -> 103 [] c = "j" -> 106 [] c = "k" -> 107
          [] c = "m" -> 109 [] c = "n" -> 110 [] c = "v" -> 118
          [] c = "x" -> 120]

\* s1 < s2 as Python compares strings
RECURSIVE StrLess(_, _)
StrLess(s1, s2) ==
    IF s2 = <<>> THEN FALSE
    ELSE IF s1 = <<>> THEN TRUE
    ELSE IF Head(s1) = Head(s2) THEN StrLess(Tail(s1), Tail(s2))
    ELSE CodePoint[Head(s1)] < CodePoint[Head(s2)]

\* sorted(keys, key=str.casefold) of distinct casefolded keys
RECURSIVE SortedKeys(_)
SortedKeys(keys) ==
    IF keys = {} THEN <<>>
    ELSE LET least == CHOOSE k \in keys :
                          \A other \in keys \ {k} : StrLess(Casefold(k), Casefold(other))
         IN  <<least>> \o SortedKeys(keys \ {least})

\* dict.setdefault over the records in order: the kind as first written
KindCase(records, kind_key) ==
    LET hits == {i \in 1..Len(records) : Casefold(records[i].kind) = kind_key}
    IN  records[CHOOSE i \in hits : \A j \in hits : i <= j].kind

\* by_kind[kind_key][name_key]: the name as first written under the kind
NameCase(records, kind_key, name_key) ==
    LET hits == {i \in 1..Len(records) :
                    /\ Casefold(records[i].kind) = kind_key
                    /\ Casefold(records[i].name) = name_key}
    IN  records[CHOOSE i \in hits : \A j \in hits : i <= j].name

\* __repr__: the kind entries in the order of their casefolded kind, each
\* with its names in the order of their casefolded name; the text is
\* kept as the sequence of its entries
Repr(records) ==
    LET kind_keys == {Casefold(records[i].kind) : i \in 1..Len(records)}
        name_keys(kind_key) ==
            {Casefold(records[i].name) :
                i \in {j \in 1..Len(records) : Casefold(records[j].kind) = kind_key}}
        names(kind_key) ==
            LET sorted == SortedKeys(name_keys(kind_key))
            IN  [i \in 1..Len(sorted) |-> NameCase(records, kind_key, sorted[i])]
        sorted_kinds == SortedKeys(kind_keys)
    IN  [i \in 1..Len(sorted_kinds) |->
            [kind |-> KindCase(records, sorted_kinds[i]),
             names |-> names(sorted_kinds[i])]]

\* mutant: get keeps the records of the kind it found as the stored records
GetCall_narrows(records, selector) ==
    LET sel == parse_selector(selector)
        kind_records == IF sel.ok THEN records_for_kind(records, sel.kind) ELSE <<>>
    IN  [outcome |-> Get(records, selector),
         records |-> IF kind_records # <<>> THEN kind_records ELSE records]

\* one call of get: its outcome, and self._records after it, which no
\* statement of get or of its helpers assigns
GetCall(records, selector) ==
    [outcome |-> Get(records, selector), records |-> records]

\* one call of __repr__: its text, and self._records after it
ReprCall(records) == [text |-> Repr(records), records |-> records]

Callers == {"a", "b"}

NoCall == [op |-> "none", selector |-> <<>>, outcome |-> Raised("none", "none"),
           text |-> <<>>]

NoCallers == [c \in Callers |-> NoCall]

---------------------------------------------------------------------------
(* The strings of the model *)

s_v == <<"v">>
s_V == <<"V">>
s_gv == <<"g", "/", "v">>
s_gsv == <<"g", "/", "/", "v">>
s_k == <<"k">>
s_K == <<"K">>
s_jk == <<"j", "/", "k">>
s_n == <<"n">>
s_N == <<"N">>
s_kn == <<"k", "/", "n">>
s_m == <<"m">>
s_x == <<"x">>

\* Well-formed documents: one resource, a case-only variant of it, the same
\* kind/name under other apiVersions (one with an empty '/'-segment), kinds
\* and names that contain '/', and another name of the same kind.
WellFormedDocs ==
    { Doc(Str(s_v), Str(s_k), Str(s_n)),
      Doc(Str(s_V), Str(s_K), Str(s_N)),
      Doc(Str(s_gv), Str(s_k), Str(s_n)),
      Doc(Str(s_gsv), Str(s_k), Str(s_n)),
      Doc(Str(s_v), Str(s_jk), Str(s_n)),
      Doc(Str(s_gv), Str(s_jk), Str(s_n)),
      Doc(Str(s_v), Str(s_k), Str(s_kn)),
      Doc(Str(s_gv), Str(s_k), Str(s_kn)),
      Doc(Str(s_v), Str(s_k), Str(s_m)) }

SeqsUpTo(S, n) == UNION {[1..k -> S] : k \in 0..n}

Streams == SeqsUpTo(WellFormedDocs, MaxDocs)

Selector2(kind, name) == kind \o <<"/">> \o name
Selector3(api_version, kind, name) ==
    api_version \o <<"/">> \o kind \o <<"/">> \o name

\* Selectors: the kind/name and the apiVersion/kind/name of every document
\* above, selectors that miss at the kind, the name or the apiVersion,
\* case variants, selectors with fewer than two segments, and selectors
\* with padding slashes or blanks.
RecordSelectors ==
    UNION {{Selector2(d.kind.s, d.metadata.name.s),
            Selector3(d.apiVersion.s, d.kind.s, d.metadata.name.s)} :
           d \in WellFormedDocs}

MissSelectors ==
    { Selector2(s_x, s_n), Selector2(s_k, s_x), Selector3(s_x, s_k, s_n),
      Selector3(s_v, s_x, s_n), Selector3(s_v, s_k, s_x) }

CaseSelectors ==
    { Selector3(<<"G", "/", "V">>, s_K, s_N), Selector3(s_v, s_K, s_n),
      Selector2(s_k, s_N) }

ShortSelectors ==
    { <<>>, <<"/">>, <<"/", "/">>, s_k, s_K, <<" ", "k", " ">>,
      <<"k", "/">>, <<"/", "k", "/">>, <<"/", "/", "n">> }

PaddedSelectors ==
    { <<"/", "k", "/", "n", "/">>, <<"k", "/", "/", "n">>,
      <<"k", "/", " ">>, <<" ", "k", "/", "n">> }

Selectors ==
    RecordSelectors \cup MissSelectors \cup CaseSelectors
    \cup ShortSelectors \cup PaddedSelectors

---------------------------------------------------------------------------
(* load_manifest and run_helm_template *)

\* a command part or a fixture name: a string, or a value that is no string
PStr(s) == [t |-> "str", s |-> s]
PInt == [t |-> "int", s |-> ""]

\* what subprocess.run does: OSError, or a completed process
OSErrorOutcome == [started |-> FALSE, returncode |-> {}, stdout |-> <<>>]
Completed(returncode, stdout) ==
    [started |-> TRUE, returncode |-> {returncode}, stdout |-> stdout]

\* HelmTemplateError: returncode is {} for None; cause is set for the OSError
NoError == [raised |-> FALSE, kind |-> "", returncode |-> {}, cause |-> FALSE]
HelmTemplateError(returncode, cause) ==
    [raised |-> TRUE, kind |-> "HelmTemplateError", returncode |-> returncode,
     cause |-> cause]

\* mutant: the exit code of the process is not looked at
run_helm_template_any_exit(outcome) ==
    IF ~outcome.started
    THEN [error |-> HelmTemplateError({}, TRUE), stdout |-> <<>>]
    ELSE [error |-> NoError, stdout |-> outcome.stdout]

\* run_helm_template: the error raised, or the stdout returned
run_helm_template(outcome) ==
    IF ~outcome.started
    THEN [error |-> HelmTemplateError({}, TRUE), stdout |-> <<>>]
    ELSE IF outcome.returncode # {0}
    THEN [error |-> HelmTemplateError(outcome.returncode, FALSE), stdout |-> <<>>]
    ELSE [error |-> NoError, stdout |-> outcome.stdout]

NoIndex == Built(<<>>)

IdleLoad ==
    [pc |-> "idle", calls |-> 0, runs |-> 0, parses |-> 0, command |-> <<>>,
     on_duplicate |-> "error", proc |-> OSErrorOutcome, rendered |-> <<>>,
     error |-> NoError, built |-> NoIndex]

\* entry of load_manifest(command, on_duplicate=...)
StartLoad(command, on_duplicate) ==
    [IdleLoad EXCEPT !.pc = "run", !.calls = load.calls + 1,
                     !.command = command, !.on_duplicate = on_duplicate]

---------------------------------------------------------------------------
(* manifest_fixture *)

IsNonEmptyPStr(v) == v.t = "str" /\ v.s # ""

\* manifest_fixture(name, command, on_duplicate=...): the ValueError raised,
\* or the fixture with the name, the command as a tuple and the policy
manifest_fixture(name, command, on_duplicate) ==
    IF ~IsNonEmptyPStr(name)
    THEN [error |-> "Fixture name must be a non-empty string.",
          name |-> PStr(""), command |-> <<>>, on_duplicate |-> "error"]
    ELSE IF command = <<>>
    THEN [error |-> "Helm command must be a non-empty sequence of strings.",
          name |-> PStr(""), command |-> <<>>, on_duplicate |-> "error"]
    ELSE IF ~\A i \in 1..Len(command) : IsNonEmptyPStr(command[i])
    THEN [error |-> "Helm command must contain only non-empty strings.",
          name |-> PStr(""), command |-> <<>>, on_duplicate |-> "error"]
    ELSE [error |-> "", name |-> name, command |-> command,
          on_duplicate |-> on_duplicate]

NoResult == [error |-> NoError, built |-> NoIndex]

IdleFixture ==
    [pc |-> "undefined",
     given |-> [name |-> PStr(""), command |-> <<>>, on_duplicate |-> "error"],
     callerList |-> <<>>, error |-> "", name |-> PStr(""), command |-> <<>>,
     on_duplicate |-> "error", invocations |-> 0, result |-> NoResult]

\* mutant: the producer reads the caller's list when it is invoked
FixtureCommand_by_reference(fx) == fx.callerList

\* the command the producer passes on: the tuple made at definition time
FixtureCommand(fx) == fx.command

---------------------------------------------------------------------------
(* The scaffolding CLI *)

\* test is the directory test/ (absent, a directory, or a file of that
\* name); each target is absent, a directory, a file with other contents or
\* a file with the template's contents
FsStates ==
    {f \in [test : {"absent", "dir", "file"},
            conftest : {"absent", "dir", "original", "template"},
            deployments : {"absent", "dir", "original", "template"}] :
        f.test # "dir" => (f.conftest = "absent" /\ f.deployments = "absent")}

IdleFs == [test |-> "absent", conftest |-> "absent", deployments |-> "absent"]

Returns(code, after) == [kind |-> "return", code |-> {code}, fs |-> after]
Raises(exc, after) == [kind |-> exc, code |-> {}, fs |-> after]

\* mutant: the missing targets are written before the refusal
scaffold_tests_partial(before, force) ==
    LET existing == {p \in {"conftest", "deployments"} : before[p] # "absent"}
    IN  IF existing # {} /\ ~force
        THEN Raises("FileExistsError",
                    [before EXCEPT !.conftest = IF @ = "absent" THEN "template" ELSE @,
                                   !.deployments = IF @ = "absent" THEN "template" ELSE @])
        ELSE IF before.test = "file" THEN Raises("FileExistsError", before)
        ELSE Returns(0, [test |-> "dir", conftest |-> "template",
                         deployments |-> "template"])

\* scaffold_tests(root, force): the exception raised or the normal return
\* (code 0 stands for the list of created paths), with the file system left
scaffold_tests(before, force) ==
    LET existing == {p \in {"conftest", "deployments"} : before[p] # "absent"}
        made == [before EXCEPT !.test = "dir"]
        first == [made EXCEPT !.conftest = "template"]
    IN  IF existing # {} /\ ~force
        THEN Raises("FileExistsError", before)
        ELSE IF before.test = "file"
        THEN Raises("FileExistsError", before)
        ELSE IF made.conftest = "dir"
        THEN Raises("IsADirectoryError", made)
        ELSE IF first.deployments = "dir"
        THEN Raises("IsADirectoryError", first)
        ELSE Returns(0, [first EXCEPT !.deployments = "template"])

\* main(argv): the exit code returned, or the exception that escapes
main(argv, before) ==
    IF "--init" \notin argv THEN Returns(2, before)
    ELSE LET done == scaffold_tests(before, "--force" \in argv)
         IN  IF done.kind = "FileExistsError" THEN Returns(1, done.fs)
             ELSE done

IdleCli ==
    [ran |-> FALSE, argv |-> {}, outcome |-> Returns(0, IdleFs), before |-> IdleFs]

---------------------------------------------------------------------------
(* Idle values *)

NotBuilt == [how |-> "none", result |-> NoIndex]
NoGet == [called |-> FALSE, selector |-> <<>>, outcome |-> Raised("none", "none")]

---------------------------------------------------------------------------
(* Spec: an index is built from a stream and then queried *)

Init ==
    /\ stream \in Streams
    /\ index = NotBuilt
    /\ lastGet = NoGet
    /\ load = IdleLoad
    /\ fixture = IdleFixture
    /\ fs = IdleFs
    /\ cli = IdleCli
    /\ callers = NoCallers

\* parse_manifest_documents(manifest_text, on_duplicate=...)
ParseManifestDocuments(on_duplicate) ==
    /\ index.how = "none"
    /\ index' = [how |-> on_duplicate,
                 result |-> parse_manifest_documents(stream, on_duplicate)]
    /\ UNCHANGED <<callers, stream, lastGet, load, fixture, fs, cli>>

\* ManifestIndex.__init__: tuple(records or ()), no duplicate policy applied
ManifestIndexInit(records) == Built(records)

\* ManifestIndex(records) called directly with the records of the stream
ConstructIndex ==
    /\ index.how = "none"
    /\ index' = [how |-> "direct",
                 result |-> ManifestIndexInit(ParseLoop(stream, 1, <<>>).records)]
    /\ UNCHANGED <<callers, stream, lastGet, load, fixture, fs, cli>>

\* ManifestIndex.get(selector)
GetSelector(selector) ==
    /\ index.how # "none"
    /\ index.result.status = "index"
    /\ lastGet' = [called |-> TRUE, selector |-> selector,
                   outcome |-> Get(index.result.records, selector)]
    /\ UNCHANGED <<callers, stream, index, load, fixture, fs, cli>>

Next ==
    \/ \E on_duplicate \in {"error", "ignore"} : ParseManifestDocuments(on_duplicate)
    \/ ConstructIndex
    \/ \E selector \in Selectors : GetSelector(selector)

Spec == Init /\ [][Next]_vars

---------------------------------------------------------------------------
(* SpecParse: batches that hold malformed documents *)

GoodDoc == Doc(Str(s_v), Str(s_k), Str(s_n))

BadValues == {None, NotStr, Str(<<>>)}

\* Documents of a batch: an empty document, a non-mapping document, two
\* well-formed documents that differ only in case, documents with one bad
\* field (missing, not a string, or empty; or metadata that is no mapping)
\* and documents with several missing fields.
BatchDocs ==
    { NullDoc, ScalarDoc, GoodDoc, Doc(Str(s_V), Str(s_K), Str(s_N)) }
    \cup {Doc(bad, Str(s_k), Str(s_n)) : bad \in BadValues}
    \cup {Doc(Str(s_v), bad, Str(s_n)) : bad \in BadValues}
    \cup {Doc(Str(s_v), Str(s_k), bad) : bad \in BadValues}
    \cup { DocMeta(Str(s_v), Str(s_k)),
           Doc(None, None, Str(s_n)), Doc(None, Str(s_k), None),
           Doc(Str(s_v), None, None), Doc(None, None, None) }

Batches == SeqsUpTo(BatchDocs, MaxBatch)

InitParse ==
    /\ stream \in Batches
    /\ index = NotBuilt
    /\ lastGet = NoGet
    /\ load = IdleLoad
    /\ fixture = IdleFixture
    /\ fs = IdleFs
    /\ cli = IdleCli
    /\ callers = NoCallers

NextParse ==
    \E on_duplicate \in {"error", "ignore"} : ParseManifestDocuments(on_duplicate)

SpecParse == InitParse /\ [][NextParse]_vars

---------------------------------------------------------------------------
(* SpecLoad: load_manifest is called on a command *)

\* what the command prints: nothing, one document, two documents that
\* collide, two versions of one resource, a malformed document, and a
\* malformed document after a well-formed one
RenderedOutputs ==
    { <<>>, <<GoodDoc>>, <<GoodDoc, Doc(Str(s_V), Str(s_K), Str(s_N))>>,
      <<GoodDoc, Doc(Str(s_gv), Str(s_k), Str(s_n))>>,
      <<Doc(Str(s_v), None, Str(s_n))>>, <<GoodDoc, ScalarDoc>> }

ReturnCodes == {0, 1, 2, -9}

ProcOutcomes ==
    {OSErrorOutcome}
    \cup {Completed(rc, out) : rc \in ReturnCodes, out \in RenderedOutputs}

HelmCommand == <<PStr("helm"), PStr("template"), PStr(".")>>

InitLoad ==
    /\ stream = <<>>
    /\ index = NotBuilt
    /\ lastGet = NoGet
    /\ load = IdleLoad
    /\ fixture = IdleFixture
    /\ fs = IdleFs
    /\ cli = IdleCli
    /\ callers = NoCallers

\* load_manifest(command, on_duplicate=...) is entered
CallLoadManifest(command, on_duplicate) ==
    /\ load.pc \in {"idle", "returned", "raised"}
    /\ load.calls < MaxCalls
    /\ load' = StartLoad(command, on_duplicate)
    /\ UNCHANGED <<callers, stream, index, lastGet, fixture, fs, cli>>

\* rendered = run_helm_template(command)
RunHelmTemplate(outcome) ==
    /\ load.pc = "run"
    /\ LET ran == run_helm_template(outcome)
       IN  load' = [load EXCEPT !.runs = @ + 1,
                                !.proc = outcome,
                                !.error = ran.error,
                                !.rendered = ran.stdout,
                                !.pc = IF ran.error.raised THEN "raised" ELSE "parse"]
    /\ UNCHANGED <<callers, stream, index, lastGet, fixture, fs, cli>>

\* return parse_manifest_documents(rendered, on_duplicate=on_duplicate)
ParseRendered ==
    /\ load.pc = "parse"
    /\ load' = [load EXCEPT !.parses = @ + 1,
                            !.built = parse_manifest_documents(load.rendered,
                                                               load.on_duplicate),
                            !.pc = "returned"]
    /\ UNCHANGED <<callers, stream, index, lastGet, fixture, fs, cli>>

NextLoad ==
    \/ \E on_duplicate \in {"error", "ignore"} :
          CallLoadManifest(HelmCommand, on_duplicate)
    \/ \E outcome \in ProcOutcomes : RunHelmTemplate(outcome)
    \/ ParseRendered

SpecLoad == InitLoad /\ [][NextLoad]_vars

---------------------------------------------------------------------------
(* the exception classes of the library and how a handler catches them *)

\* AmbiguousManifestError declared as a kind of KeyError
Bases_ambiguous_keyerror(cls) ==
    CASE cls = "HelmTemplateError" -> "RuntimeError"
      [] cls = "ManifestParseError" -> "ValueError"
      [] cls = "DuplicateManifestError" -> "ValueError"
      [] cls = "AmbiguousManifestError" -> "KeyError"
      [] cls = "KeyError" -> "LookupError"
      [] cls \in {"ValueError", "RuntimeError", "LookupError"} -> "Exception"
      [] OTHER -> "BaseException"

\* the base class in each class statement; KeyError, ValueError,
\* RuntimeError and LookupError are the built-in classes
Bases(cls) ==
    CASE cls = "HelmTemplateError" -> "RuntimeError"
      [] cls = "ManifestParseError" -> "ValueError"
      [] cls = "DuplicateManifestError" -> "ValueError"
      [] cls = "AmbiguousManifestError" -> "LookupError"
      [] cls = "KeyError" -> "LookupError"
      [] cls \in {"ValueError", "RuntimeError", "LookupError"} -> "Exception"
      [] OTHER -> "BaseException"

RECURSIVE IsSubclass(_, _)
IsSubclass(cls, base) ==
    \/ cls = base
    \/ cls # "BaseException" /\ IsSubclass(Bases(cls), base)

\* `except handler:` catches an exception of class raised
Catches(handler, raised) == IsSubclass(raised, handler)

ErrorKinds ==
    {"template", "parse", "duplicate", "selector", "notfound", "ambiguous"}

\* the class in the raise statement of each kind of failure
RaisedClass(kind) ==
    CASE kind = "template" -> "HelmTemplateError"
      [] kind = "parse" -> "ManifestParseError"
      [] kind = "duplicate" -> "DuplicateManifestError"
      [] kind = "selector" -> "ValueError"
      [] kind = "notfound" -> "KeyError"
      [] kind = "ambiguous" -> "AmbiguousManifestError"

---------------------------------------------------------------------------
(* SpecLookup: load_manifest(command).get(selector) *)

\* load_manifest is entered by a caller that has no result of get yet
LoadManifest(command, on_duplicate) ==
    /\ load.pc \in {"idle", "returned", "raised"}
    /\ load.calls < MaxCalls
    /\ load' = StartLoad(command, on_duplicate)
    /\ lastGet' = NoGet
    /\ UNCHANGED <<callers, stream, index, fixture, fs, cli>>

\* get(selector) on the index that load_manifest returned
GetLoaded(selector) ==
    /\ load.pc = "returned"
    /\ load.built.status = "index"
    /\ lastGet' = [called |-> TRUE, selector |-> selector,
                   outcome |-> Get(load.built.records, selector)]
    /\ UNCHANGED <<callers, stream, index, load, fixture, fs, cli>>

NextLookup ==
    \/ \E on_duplicate \in {"error", "ignore"} :
          LoadManifest(HelmCommand, on_duplicate)
    \/ \E outcome \in ProcOutcomes : RunHelmTemplate(outcome)
    \/ ParseRendered
    \/ \E selector \in Selectors : GetLoaded(selector)

SpecLookup == InitLoad /\ [][NextLookup]_vars

---------------------------------------------------------------------------
(* SpecReaders: two callers share one index and call get and repr on it *)

\* the selectors the callers use: the first document with and without its
\* apiVersion, another name, a missing kind and a kind alone
ReaderSelectors ==
    { Selector2(s_k, s_n), Selector3(s_v, s_k, s_n), Selector2(s_K, s_m),
      Selector2(s_x, s_n), s_k }

\* caller c calls index.get(selector)
CallerGet(c, selector) ==
    /\ index.how # "none"
    /\ index.result.status = "index"
    /\ LET call == GetCall(index.result.records, selector)
       IN  /\ callers' = [callers EXCEPT ![c] =
                            [op |-> "get", selector |-> selector,
                             outcome |-> call.outcome, text |-> <<>>]]
           /\ index' = [index EXCEPT !.result.records = call.records]
    /\ UNCHANGED <<stream, lastGet, load, fixture, fs, cli>>

\* caller c calls repr(index)
CallerRepr(c) ==
    /\ index.how # "none"
    /\ index.result.status = "index"
    /\ LET call == ReprCall(index.result.records)
       IN  /\ callers' = [callers EXCEPT ![c] =
                            [op |-> "repr", selector |-> <<>>,
                             outcome |-> Raised("none", "none"),
                             text |-> call.text]]
           /\ index' = [index EXCEPT !.result.records = call.records]
    /\ UNCHANGED <<stream, lastGet, load, fixture, fs, cli>>

NextReaders ==
    \/ \E on_duplicate \in {"error", "ignore"} : ParseManifestDocuments(on_duplicate)
    \/ ConstructIndex
    \/ \E c \in Callers : \E selector \in ReaderSelectors : CallerGet(c, selector)
    \/ \E c \in Callers : CallerRepr(c)

SpecReaders == Init /\ [][NextReaders]_vars

---------------------------------------------------------------------------
(* SpecFixture: a fixture is defined and its producer is invoked *)

FixtureNames == {PStr("chart_manifest"), PStr(""), PInt}

CommandParts == {PStr("helm"), PStr("template"), PStr(""), PInt}

FixtureCommands == SeqsUpTo(CommandParts, MaxCmd)

\* manifest_fixture(name, command, on_duplicate=...) at module import
ManifestFixture(name, command, on_duplicate) ==
    /\ fixture.pc = "undefined"
    /\ LET made == manifest_fixture(name, command, on_duplicate)
       IN  fixture' =
              [fixture EXCEPT
                  !.pc = IF made.error = "" THEN "defined" ELSE "rejected",
                  !.given = [name |-> name, command |-> command,
                             on_duplicate |-> on_duplicate],
                  !.callerList = command,
                  !.error = made.error,
                  !.name = made.name,
                  !.command = made.command,
                  !.on_duplicate = made.on_duplicate]
    /\ UNCHANGED <<callers, stream, index, lastGet, load, fs, cli>>

\* the caller changes the list it passed, after the definition
MutateCallerList ==
    /\ fixture.pc \in {"defined", "invoked"}
    /\ fixture.callerList = fixture.given.command
    /\ fixture' = [fixture EXCEPT !.callerList = Append(@, PStr("--debug"))]
    /\ UNCHANGED <<callers, stream, index, lastGet, load, fs, cli>>

\* the producer _manifest_fixture() is called
InvokeFixture ==
    /\ fixture.pc = "defined"
    /\ fixture.invocations < MaxCalls
    /\ fixture' = [fixture EXCEPT !.pc = "invoked", !.invocations = @ + 1]
    /\ load' = StartLoad(FixtureCommand(fixture), fixture.on_duplicate)
    /\ UNCHANGED <<callers, stream, index, lastGet, fs, cli>>

\* load_manifest returns to the producer, or its error passes through
FixtureReturn ==
    /\ fixture.pc = "invoked"
    /\ load.pc \in {"returned", "raised"}
    /\ fixture' = [fixture EXCEPT !.pc = "defined",
                                  !.result = [error |-> load.error,
                                              built |-> load.built]]
    /\ UNCHANGED <<callers, stream, index, lastGet, load, fs, cli>>

NextFixture ==
    \/ \E name \in FixtureNames, command \in FixtureCommands,
          on_duplicate \in {"error", "ignore"} :
          ManifestFixture(name, command, on_duplicate)
    \/ MutateCallerList
    \/ InvokeFixture
    \/ \E outcome \in ProcOutcomes : RunHelmTemplate(outcome)
    \/ ParseRendered
    \/ FixtureReturn

SpecFixture == InitLoad /\ [][NextFixture]_vars

---------------------------------------------------------------------------
(* SpecCli: main is run in a directory that other programs also change *)

InitCli ==
    /\ stream = <<>>
    /\ index = NotBuilt
    /\ lastGet = NoGet
    /\ load = IdleLoad
    /\ fixture = IdleFixture
    /\ fs \in FsStates
    /\ cli = IdleCli
    /\ callers = NoCallers

\* main(argv) in the current directory
Main(argv) ==
    /\ LET outcome == main(argv, fs)
       IN  /\ cli' = [ran |-> TRUE, argv |-> argv, outcome |-> outcome,
                      before |-> fs]
           /\ fs' = outcome.fs
    /\ UNCHANGED <<callers, stream, index, lastGet, load, fixture>>

\* the user edits or creates a target file
UserWrites(path) ==
    /\ fs.test = "dir"
    /\ fs[path] # "dir"
    /\ fs' = [fs EXCEPT ![path] = "original"]
    /\ UNCHANGED <<callers, stream, index, lastGet, load, fixture, cli>>

\* the user removes a target
UserRemoves(path) ==
    /\ fs[path] # "absent"
    /\ fs' = [fs EXCEPT ![path] = "absent"]
    /\ UNCHANGED <<callers, stream, index, lastGet, load, fixture, cli>>

NextCli ==
    \/ \E argv \in SUBSET {"--init", "--force"} : Main(argv)
    \/ \E path \in {"conftest", "deployments"} : UserWrites(path)
    \/ \E path \in {"conftest", "deployments"} : UserRemoves(path)

SpecCli == InitCli /\ [][NextCli]_vars

---------------------------------------------------------------------------
(* Vocabulary of the properties *)

SameUpToCase(s1, s2) == Casefold(s1) = Casefold(s2)

NoSlash(s) == \A i \in 1..Len(s) : s[i] # "/"

\* every '/'-separated piece of s is non-empty
NoEmptySegment(s) == \A i \in 1..Len(Split(s, "/")) : Split(s, "/")[i] # <<>>

\* the non-empty '/'-separated segments of a selector, in order
Segments(selector) == SelectSeq(Split(selector, "/"), NonEmpty)

\* the other casing of a letter
SwapCase(c) ==
    IF c \in DOMAIN FoldMap THEN FoldMap[c]
    ELSE IF c \in DOMAIN UpperMap THEN UpperMap[c] ELSE c

\* every string that differs from s only in the case of its letters
RECURSIVE CaseVariants(_)
CaseVariants(s) ==
    IF s = <<>> THEN {<<>>}
    ELSE {<<c>> \o rest : c \in {Head(s), SwapCase(Head(s))},
                          rest \in CaseVariants(Tail(s))}

Records == index.result.records

RecordSet == {Records[i] : i \in 1..Len(Records)}

IndexBuilt == index.how # "none" /\ index.result.status = "index"

ParsedIndex == index.how \in {"error", "ignore"} /\ index.result.status = "index"

\* r is one of several records of its kind/name that differ in apiVersion
InAmbiguousPair(r) ==
    \E r2 \in RecordSet :
        /\ SameUpToCase(r2.kind, r.kind)
        /\ SameUpToCase(r2.name, r.name)
        /\ r2.api_version # r.api_version

Plain(r) == NoSlash(r.kind) /\ NoSlash(r.name) /\ NoEmptySegment(r.api_version)

\* the two halves of C1 for one record of an ambiguous kind/name
VersionedLookup(r) ==
    /\ lastGet.selector = Selector2(r.kind, r.name)
          => lastGet.outcome.exc = "AmbiguousManifestError"
    /\ lastGet.selector = Selector3(r.api_version, r.kind, r.name)
          => lastGet.outcome = Returned(r.manifest)

---------------------------------------------------------------------------
(* C1 *)

\* C1 as stated: in an index built by parse_manifest_documents, for every
\* record of a kind/name held under two or more apiVersions, get('kind/name')
\* raises AmbiguousManifestError and get('apiVersion/kind/name') returns
\* that record's document.
C1_Original ==
    (ParsedIndex /\ lastGet.called) =>
        \A r \in RecordSet : InAmbiguousPair(r) => VersionedLookup(r)

\* C1 amended: the same, for the records whose kind and name contain no
\* '/' and whose apiVersion has no empty '/'-segment.
C1_VersionedLookup ==
    (ParsedIndex /\ lastGet.called) =>
        \A r \in RecordSet : (InAmbiguousPair(r) /\ Plain(r)) => VersionedLookup(r)

\* the versioned selector of the second of two versions returned the second
\* document, not the first
C1_Witness ==
    /\ ParsedIndex /\ lastGet.called
    /\ \E r \in RecordSet :
          /\ InAmbiguousPair(r) /\ Plain(r)
          /\ r.manifest = 2
          /\ lastGet.selector = Selector3(r.api_version, r.kind, r.name)
          /\ lastGet.outcome = Returned(2)

---------------------------------------------------------------------------
(* C2 *)

\* C2: get is invariant under case changes of the selector: every case
\* variant of the selector of a get call has the outcome of that call, the
\* same document object or the same error kind.
C2_CaseInvariance ==
    (IndexBuilt /\ lastGet.called) =>
        \A variant \in CaseVariants(lastGet.selector) :
            LET other == Get(Records, variant)
            IN  /\ other.exc = lastGet.outcome.exc
                /\ other.doc = lastGet.outcome.doc

\* an upper-case selector returned a document stored under lower-case fields
C2_Witness ==
    /\ IndexBuilt /\ lastGet.called
    /\ lastGet.selector = Selector3(<<"G", "/", "V">>, s_K, s_N)
    /\ lastGet.outcome.exc = "none"
    /\ \E r \in RecordSet :
          /\ r.manifest = lastGet.outcome.doc
          /\ r.api_version = s_gv /\ r.kind = s_k /\ r.name = s_n

---------------------------------------------------------------------------
(* C3 *)

SameKey(r1, r2) ==
    /\ SameUpToCase(r1.kind, r2.kind)
    /\ SameUpToCase(r1.name, r2.name)
    /\ SameUpToCase(r1.api_version, r2.api_version)

\* the records of all documents of the stream, before the duplicate policy
StreamRecords == ParseLoop(stream, 1, <<>>).records

HasDuplicate ==
    \E i, j \in 1..Len(StreamRecords) :
        i < j /\ SameKey(StreamRecords[i], StreamRecords[j])

IsFirstOccurrence(r) ==
    \A i \in 1..Len(StreamRecords) :
        (StreamRecords[i].manifest < r.manifest) => ~SameKey(StreamRecords[i], r)

\* C3: over well-formed documents, two documents with the same key up to
\* case make on_duplicate='error' raise DuplicateManifestError without an
\* index; on_duplicate='ignore' never raises it and keeps, in input order,
\* exactly the first document of every key.
C3_DuplicatePolicy ==
    /\ (index.how = "error" /\ HasDuplicate) =>
          /\ index.result.status = "DuplicateManifestError"
          /\ index.result.records = <<>>
    /\ (index.how = "error" /\ ~HasDuplicate) => index.result.status = "index"
    /\ index.how = "ignore" =>
          /\ index.result.status = "index"
          /\ index.result.records = SelectSeq(StreamRecords, IsFirstOccurrence)

\* 'ignore' dropped the second of two documents that differ only in case
C3_Witness ==
    /\ index.how = "ignore"
    /\ Len(stream) = 2
    /\ stream[1] # stream[2]
    /\ HasDuplicate
    /\ Len(index.result.records) = 1
    /\ index.result.records[1].manifest = 1

---------------------------------------------------------------------------
(* C5 *)

KindHit(sel) == \E r \in RecordSet : SameUpToCase(r.kind, sel.kind)

NameHit(sel) ==
    \E r \in RecordSet :
        SameUpToCase(r.kind, sel.kind) /\ SameUpToCase(r.name, sel.name)

FullHit(sel, r) ==
    /\ SameUpToCase(r.kind, sel.kind)
    /\ SameUpToCase(r.name, sel.name)
    /\ sel.has_api => SameUpToCase(r.api_version, sel.api_version)

\* C5: a well-formed selector is resolved in the order kind, name,
\* apiVersion and fails at the first stage without a match; a document is
\* returned only when every supplied segment matches its record.
C5_ResolutionOrder ==
    (IndexBuilt /\ lastGet.called /\ Len(Segments(lastGet.selector)) >= 2) =>
        LET sel == parse_selector(lastGet.selector)
            out == lastGet.outcome
        IN  /\ ~KindHit(sel) => out = Raised("KeyError", "kind")
            /\ (KindHit(sel) /\ ~NameHit(sel)) => out = Raised("KeyError", "name")
            /\ (NameHit(sel) /\ sel.has_api /\ ~\E r \in RecordSet : FullHit(sel, r))
                  => out = Raised("KeyError", "apiVersion")
            /\ out.exc = "none" =>
                  \E r \in RecordSet : r.manifest = out.doc /\ FullHit(sel, r)

\* the kind and the name matched and the apiVersion did not
C5_Witness ==
    /\ IndexBuilt /\ lastGet.called
    /\ lastGet.selector = Selector3(s_x, s_k, s_n)
    /\ lastGet.outcome = Raised("KeyError", "apiVersion")

---------------------------------------------------------------------------
(* C6 *)

\* C6: a selector with fewer than two non-empty segments raises the
\* invalid-selector error before any lookup, on every index; otherwise the
\* last segment is the name, the one before it the kind and the remaining
\* ones, joined with '/', the apiVersion.
C6_SelectorShape ==
    (IndexBuilt /\ lastGet.called) =>
        LET segs == Segments(lastGet.selector)
            n == Len(segs)
            sel == parse_selector(lastGet.selector)
        IN  /\ n < 2 => lastGet.outcome = Raised("ValueError", "selector")
            /\ n >= 2 =>
                  /\ lastGet.outcome.exc # "ValueError"
                  /\ sel.ok
                  /\ sel.name = segs[n]
                  /\ sel.kind = segs[n - 1]
                  /\ sel.api_version = Join(SubSeq(segs, 1, n - 2), "/")
                  /\ sel.has_api = (n > 2)
                  /\ lastGet.outcome = Get(Records, Join(segs, "/"))

\* a blank-padded kind alone was rejected although the index has that kind
C6_Witness ==
    /\ IndexBuilt /\ lastGet.called
    /\ lastGet.selector = <<" ", "k", " ">>
    /\ lastGet.outcome = Raised("ValueError", "selector")
    /\ \E r \in RecordSet : r.kind = s_k

---------------------------------------------------------------------------
(* C10 *)

NameRecords(sel) ==
    {r \in RecordSet :
        SameUpToCase(r.kind, sel.kind) /\ SameUpToCase(r.name, sel.name)}

\* C10 as stated: on every index, deduplicated or not, an unversioned get
\* whose kind and name match returns the first matching record in stored
\* order when the matching records' apiVersions are equal up to case, and
\* raises AmbiguousManifestError only when two of them differ by more than
\* case.
C10_CaseInsensitiveAmbiguity ==
    (IndexBuilt /\ lastGet.called /\ Len(Segments(lastGet.selector)) = 2) =>
        LET sel == parse_selector(lastGet.selector)
            hits == NameRecords(sel)
            oneVersion == \A r1, r2 \in hits : SameUpToCase(r1.api_version, r2.api_version)
        IN  hits # {} =>
               /\ oneVersion =>
                     \E r \in hits :
                        /\ lastGet.outcome = Returned(r.manifest)
                        /\ \A r2 \in hits : r.manifest <= r2.manifest
               /\ lastGet.outcome.exc = "AmbiguousManifestError" => ~oneVersion

---------------------------------------------------------------------------
(* C4 *)

FieldBad(v) == v.t # "str" \/ v.s = <<>>

NameOf(doc) == IF doc.metadata.t = "map" THEN doc.metadata.name ELSE None

\* the required fields a mapping document lacks, in the order apiVersion,
\* kind, metadata.name
Lacking(doc) ==
    (IF FieldBad(doc.apiVersion) THEN <<"apiVersion">> ELSE <<>>)
    \o (IF FieldBad(doc.kind) THEN <<"kind">> ELSE <<>>)
    \o (IF FieldBad(NameOf(doc)) THEN <<"metadata.name">> ELSE <<>>)

LacksField(doc) == doc.tag = "map" /\ Lacking(doc) # <<>>

Malformed(doc) == doc.tag = "scalar" \/ LacksField(doc)

Parsed == index.how \in {"error", "ignore"}

\* C4 as stated: for every document of the batch that lacks a required
\* field, the call raises ManifestParseError and the error names a field
\* that this document lacks, whatever the other documents are.
C4_Original ==
    Parsed =>
        \A i \in 1..Len(stream) :
            LacksField(stream[i]) =>
                /\ index.result.status = "ManifestParseError"
                /\ \E k \in 1..Len(Lacking(stream[i])) :
                      index.result.field = Lacking(stream[i])[k]

\* C4 amended: a batch with a document that lacks a required field always
\* raises ManifestParseError, under either policy and whatever the other
\* documents are; the error names the document and its missing field when
\* that document is the earliest malformed one of the batch, and then the
\* first field it lacks in the order apiVersion, kind, metadata.name.
C4_ParseErrorOfEarliest ==
    Parsed =>
        \A i \in 1..Len(stream) :
            LacksField(stream[i]) =>
                /\ index.result.status = "ManifestParseError"
                /\ index.result.records = <<>>
                /\ (\A j \in 1..(i - 1) : ~Malformed(stream[j])) =>
                      /\ index.result.ordinal = i
                      /\ index.result.field = Lacking(stream[i])[1]

\* two documents that collide came before the document without a kind, and
\* under 'error' the parse error of the third document was raised
C4_Witness ==
    /\ index.how = "error"
    /\ Len(stream) = 3
    /\ stream[1] = GoodDoc
    /\ stream[2] = Doc(Str(s_V), Str(s_K), Str(s_N))
    /\ Lacking(stream[3]) = <<"kind">>
    /\ index.result = ParseError(3, "kind")

---------------------------------------------------------------------------
(* C7 *)

\* the process could not be started or exited non-zero
ProcessFailed(proc) == ~proc.started \/ proc.returncode # {0}

AfterRun == load.pc \in {"parse", "returned", "raised"}

\* C7: load_manifest runs the command once per call and never again; a
\* process that cannot be started or exits non-zero gives HelmTemplateError,
\* nothing is parsed and no index is returned; only exit code 0 has its
\* stdout parsed, and the result is that of parse_manifest_documents on
\* that stdout with the same policy.
C7_LoadOnce ==
    /\ load.pc = "run" => (load.runs = 0 /\ load.parses = 0)
    /\ AfterRun => load.runs = 1
    /\ (AfterRun /\ ProcessFailed(load.proc)) =>
          /\ load.pc = "raised"
          /\ load.error.kind = "HelmTemplateError"
          /\ load.error.cause = ~load.proc.started
          /\ load.parses = 0
          /\ load.built = NoIndex
    /\ (AfterRun /\ ~ProcessFailed(load.proc)) =>
          /\ load.pc # "raised"
          /\ ~load.error.raised
    /\ load.pc = "returned" =>
          /\ load.parses = 1
          /\ load.built = parse_manifest_documents(load.proc.stdout,
                                                   load.on_duplicate)

\* the second call's process printed a well-formed document and exited
\* with code 1: HelmTemplateError, one run, nothing parsed
C7_Witness ==
    /\ load.calls = 2
    /\ load.pc = "raised"
    /\ load.proc = Completed(1, <<GoodDoc>>)
    /\ load.error = HelmTemplateError({1}, FALSE)
    /\ load.runs = 1
    /\ load.parses = 0

---------------------------------------------------------------------------
(* C8 *)

BadDefinition(given) ==
    \/ ~(given.name.t = "str" /\ given.name.s # "")
    \/ given.command = <<>>
    \/ \E i \in 1..Len(given.command) :
          ~(given.command[i].t = "str" /\ given.command[i].s # "")

\* C8: manifest_fixture rejects an empty name, an empty command and a
\* command with an empty or non-string part with ValueError and runs
\* nothing at definition time; each invocation of the producer calls
\* load_manifest once, with the command as it was at definition time and
\* the given policy, and hands back that call's index or error unchanged.
C8_FixtureProducer ==
    /\ fixture.pc # "undefined" =>
          /\ BadDefinition(fixture.given) <=> fixture.pc = "rejected"
          /\ BadDefinition(fixture.given) <=> fixture.error # ""
    /\ fixture.pc \in {"undefined", "rejected"} => fixture.invocations = 0
    /\ fixture.invocations = 0 => (load.calls = 0 /\ load.runs = 0)
    /\ load.calls = fixture.invocations
    /\ fixture.invocations > 0 =>
          /\ load.command = fixture.given.command
          /\ load.on_duplicate = fixture.given.on_duplicate
    /\ (fixture.pc = "defined" /\ fixture.invocations > 0) =>
          /\ load.pc \in {"returned", "raised"}
          /\ load.runs = 1
          /\ fixture.result = [error |-> load.error, built |-> load.built]

\* the caller's list was changed, and the producer still ran the command of
\* the definition and passed DuplicateManifestError on
C8_Witness ==
    /\ fixture.pc = "defined"
    /\ fixture.invocations = 2
    /\ fixture.callerList # fixture.given.command
    /\ load.command = fixture.given.command
    /\ Len(load.command) = 2
    /\ fixture.given.on_duplicate = "error"
    /\ fixture.result.built.status = "DuplicateManifestError"

---------------------------------------------------------------------------
(* C9 *)

Existing(f) == {p \in {"conftest", "deployments"} : f[p] # "absent"}

BothWritten(outcome) ==
    /\ outcome.kind = "return"
    /\ outcome.code = {0}
    /\ outcome.fs.test = "dir"
    /\ outcome.fs.conftest = "template"
    /\ outcome.fs.deployments = "template"

---------------------------------------------------------------------------
(* C11 *)

\* two well-formed documents have the same key up to case
DocsCollide(d1, d2) ==
    /\ SameUpToCase(d1.kind.s, d2.kind.s)
    /\ SameUpToCase(NameOf(d1).s, NameOf(d2).s)
    /\ SameUpToCase(d1.apiVersion.s, d2.apiVersion.s)

\* what makes a call of load_manifest fail, read off its inputs: the
\* process, then the documents it printed, then the policy
LoadTrigger ==
    IF ProcessFailed(load.proc) THEN "template"
    ELSE IF \E i \in 1..Len(load.rendered) : Malformed(load.rendered[i])
         THEN "parse"
    ELSE IF /\ load.on_duplicate = "error"
            /\ \E i, j \in 1..Len(load.rendered) :
                  /\ i < j
                  /\ load.rendered[i].tag = "map" /\ load.rendered[j].tag = "map"
                  /\ DocsCollide(load.rendered[i], load.rendered[j])
         THEN "duplicate"
    ELSE "none"

LoadedSet == {load.built.records[i] : i \in 1..Len(load.built.records)}

\* what makes a call of get fail, read off the selector and the records
GetTrigger ==
    IF Len(Segments(lastGet.selector)) < 2 THEN "selector"
    ELSE LET sel == parse_selector(lastGet.selector)
             hits == {r \in LoadedSet : FullHit(sel, r)}
         IN  IF hits = {} THEN "notfound"
             ELSE IF ~sel.has_api
                     /\ \E r1, r2 \in hits : r1.api_version # r2.api_version
                  THEN "ambiguous"
             ELSE "none"

\* the classes of the errors that the calls of this state raised
Failures ==
    (IF load.pc = "raised" THEN {load.error.kind} ELSE {})
    \cup (IF load.pc = "returned" /\ load.built.status # "index"
          THEN {load.built.status} ELSE {})
    \cup (IF lastGet.called /\ lastGet.outcome.exc # "none"
          THEN {lastGet.outcome.exc} ELSE {})

\* every failure has the class of its trigger, and a call without a trigger
\* does not fail
KindByTrigger ==
    /\ load.pc = "raised" =>
          LoadTrigger = "template" /\ load.error.kind = RaisedClass("template")
    /\ load.pc = "returned" =>
          /\ LoadTrigger # "template"
          /\ load.built.status =
                IF LoadTrigger = "none" THEN "index" ELSE RaisedClass(LoadTrigger)
    /\ lastGet.called =>
          lastGet.outcome.exc =
             IF GetTrigger = "none" THEN "none" ELSE RaisedClass(GetTrigger)

DistinctKinds ==
    /\ \A k1, k2 \in ErrorKinds : k1 # k2 => RaisedClass(k1) # RaisedClass(k2)
    /\ \A k \in ErrorKinds : RaisedClass(k) \notin {"Exception", "BaseException"}

---------------------------------------------------------------------------
(* C12 *)

\* the records the index was constructed with
ConstructedRecords ==
    IF index.how = "direct" THEN StreamRecords
    ELSE parse_manifest_documents(stream, index.how).records

\* C12: whatever get and repr calls the callers of an index have made,
\* succeeding or failing, the stored records are those of the construction,
\* in the same order and with the same fields, and the selector of every
\* earlier get still gives the outcome that call had, and repr its text.
C12_ReadOnly ==
    IndexBuilt =>
        /\ Records = ConstructedRecords
        /\ \A c \in Callers :
              /\ callers[c].op = "get" =>
                    callers[c].outcome = Get(Records, callers[c].selector)
              /\ callers[c].op = "repr" => callers[c].text = Repr(Records)

\* caller b's get failed at the kind and caller a's repr lists the two
\* names of the kind in sorted order; the index still holds both records
\* in stream order and kind/name still gives the first document
C12_Witness ==
    /\ IndexBuilt
    /\ Len(Records) = 2
    /\ Records[1].name = s_n /\ Records[2].name = s_m
    /\ callers["b"].op = "get"
    /\ callers["b"].outcome = Raised("KeyError", "kind")
    /\ callers["a"].op = "repr"
    /\ callers["a"].text = <<[kind |-> s_k, names |-> <<s_m, s_n>>]>>
    /\ Get(Records, Selector2(s_k, s_n)) = Returned(1)

---------------------------------------------------------------------------
(* C13 *)

\* the selector apiVersion/kind/name of a record
OwnSelector(r) == Selector3(r.api_version, r.kind, r.name)

\* C13: in every index returned by parse_manifest_documents, under either
\* policy, no two stored records have the same key up to case; the stored
\* records are documents of the stream, in stream order; and every stored
\* record with no '/' in its kind and name and no empty '/'-segment in its
\* apiVersion is what get returns for its own apiVersion/kind/name, a
\* selector that matches this record and no other.
C13_IndexInvariant ==
    ParsedIndex =>
        /\ \A i, j \in 1..Len(Records) :
              i < j =>
                 /\ ~SameKey(Records[i], Records[j])
                 /\ Records[i].manifest < Records[j].manifest
        /\ \A r \in RecordSet :
              /\ r.manifest \in 1..Len(stream)
              /\ stream[r.manifest] = Doc(Str(r.api_version), Str(r.kind), Str(r.name))
        /\ \A r \in RecordSet :
              Plain(r) =>
                 /\ Get(Records, OwnSelector(r)) = Returned(r.manifest)
                 /\ \A r2 \in RecordSet :
                       FullHit(parse_selector(OwnSelector(r)), r2) => r2 = r

\* under 'ignore' the second document, a case variant of the first, was
\* dropped, and get of the dropped document's own selector returned the
\* first document
C13_Witness ==
    /\ index.how = "ignore"
    /\ index.result.status = "index"
    /\ Len(stream) = 2
    /\ stream[2] = Doc(Str(s_V), Str(s_K), Str(s_N))
    /\ Len(Records) = 1
    /\ Plain(Records[1])
    /\ Records[1].api_version = s_v
    /\ lastGet.called
    /\ lastGet.selector = Selector3(s_V, s_K, s_N)
    /\ lastGet.outcome = Returned(1)

---------------------------------------------------------------------------
(* C14 *)

\* the positions of the malformed documents of the stream, the empty
\* documents counted
MalformedAt == {i \in 1..Len(stream) : Malformed(stream[i])}

\* the check a malformed document fails first: the mapping check, then
\* apiVersion, kind and metadata.name
FirstFailure(doc) ==
    IF doc.tag = "scalar" THEN "mapping" ELSE Lacking(doc)[1]

\* two mapping documents of the stream collide
StreamCollides ==
    \E i, j \in 1..Len(stream) :
        /\ i < j
        /\ stream[i].tag = "map" /\ stream[j].tag = "map"
        /\ DocsCollide(stream[i], stream[j])

\* C14: parse_manifest_documents validates the documents in stream order
\* before it applies the duplicate policy: with a malformed document in the
\* stream it raises ManifestParseError for the earliest one, with that
\* document's 1-based position among all documents, the empty ones
\* counted, and the first check it fails in the order mapping, apiVersion,
\* kind, metadata.name; DuplicateManifestError is raised only when no
\* document is malformed, wherever the colliding documents are.
C14_DetectionOrder ==
    Parsed =>
        /\ MalformedAt # {} =>
              LET first == CHOOSE i \in MalformedAt : \A j \in MalformedAt : i <= j
              IN  index.result = ParseError(first, FirstFailure(stream[first]))
        /\ index.result.status = "ManifestParseError" => MalformedAt # {}
        /\ index.result.status = "DuplicateManifestError" =>
              /\ MalformedAt = {}
              /\ index.how = "error"
              /\ StreamCollides

\* after an empty document, a document without kind and name was reported
\* as document #2 lacking 'kind', and the non-mapping document after it was
\* not reported
C14_Witness ==
    /\ Parsed
    /\ Len(stream) = 3
    /\ stream[1] = NullDoc
    /\ stream[2] = Doc(Str(s_v), None, None)
    /\ stream[3] = ScalarDoc
    /\ index.result = ParseError(2, "kind")

===========================================================================
